---- MODULE Spec2Model ----
(***************************************************************************)
(* FreeCell solver: the game state (game.rs), the search layer's move      *)
(* generator and move applier (solver.rs), and Solver::solve.              *)
(*                                                                         *)
(* Indices are 0-based as in the Rust source: columns 0..7, freecells      *)
(* 0..3, foundations 0..3 (indexed by `suit as usize`).  A column is a     *)
(* sequence whose last element is the top card.  An Option<Card> is <<>>   *)
(* for None and <<c>> for Some(c).                                         *)
(***************************************************************************)
EXTENDS Integers, Sequences, FiniteSets, TLC

VARIABLES game, initial_game, nodes_explored, visited_states,
          pc, max_nodes, result, depth, last, limit, deck, applied,
          heap, popped, made

vars == <<game, initial_game, nodes_explored, visited_states,
          pc, max_nodes, result, depth, last, limit, deck, applied,
          heap, popped, made>>

(* ---------------------------------------------------------------- bounds *)

\* Longest sequence of moves applied from a dealt game.
MaxDepth == 3

\* Longest sequence of moves applied from a directly constructed position.
GenDepth == 1

\* Number of cards placed on the board in a directly constructed position.
NumGenCards == 4

\* Largest node budget handed to Solver::solve.
MaxBudget == 2

\* Largest number of nodes in the frontier.
MaxHeapLen == 3

(* ----------------------------------------------------------------- cards *)

Diamond == 0
Club == 1
Spade == 2
Heart == 3

Suits == {Diamond, Club, Spade, Heart}

KING == 13

Ranks == 1..KING

Cd(r, s) == [rank |-> r, suit |-> s]

Deck == {Cd(r, s) : r \in Ranks, s \in Suits}

is_black(c) == c.suit = Diamond \/ c.suit = Heart

\* Card::can_stack of game.rs: self is the card already on the column,
\* other the card put on it.
can_stack(self, other) ==
    LET same_color == (self.suit = Diamond \/ self.suit = Heart)
                      = (other.suit = Diamond \/ other.suit = Heart)
    IN  ~same_color /\ self.rank - 1 = other.rank

\* Game::can_stack_on, the predicate Solver::get_moves and Solver::heuristic
\* call.
can_stack_on(card_below, card_above) ==
    LET same_color == is_black(card_below) = is_black(card_above)
    IN  ~same_color /\ card_below.rank + 1 = card_above.rank

(* ------------------------------------------------------------- sequences *)

Last(s) == s[Len(s)]

Front(s) == SubSeq(s, 1, Len(s) - 1)

Range(s) == {s[k] : k \in 1..Len(s)}

RECURSIVE Flatten(_)
Flatten(ss) == IF ss = <<>> THEN <<>> ELSE Head(ss) \o Flatten(Tail(ss))

\* The elements of the set of integers S in ascending order.
RECURSIVE Ascending(_)
Ascending(S) ==
    IF S = {} THEN <<>>
    ELSE LET m == CHOOSE x \in S : \A y \in S : x <= y
         IN  <<m>> \o Ascending(S \ {m})

(* ------------------------------------------------------------ game state *)

Cols == 0..7
Cells == 0..3

EmptyGame ==
    [columns     |-> [c \in Cols |-> <<>>],
     freecells   |-> [f \in Cells |-> <<>>],
     foundations |-> [s \in Suits |-> 0]]

\* A foundation that accepts every card above its top one.
can_move_to_foundation_above(g, card) == g.foundations[card.suit] < card.rank

can_move_to_foundation(g, card) == g.foundations[card.suit] + 1 = card.rank

\* The number of occupied freecells.
count_occupied_cells(g) == Cardinality({f \in Cells : g.freecells[f] # <<>>})

count_free_cells(g) == Cardinality({f \in Cells : g.freecells[f] = <<>>})

is_complete(g) == \A s \in Suits : g.foundations[s] = KING

\* Game::max_sequence, on the column itself: the length of the longest
\* suffix in which every card can_stack the card lying on it.
max_sequence(column) ==
    LET column_size == Len(column)
        broken == {i \in 0..(column_size - 2) :
                      ~can_stack(column[i + 1], column[i + 2])}
    IN  IF column_size < 2 THEN column_size
        ELSE IF broken = {} THEN column_size
        ELSE column_size - (CHOOSE i \in broken : \A b \in broken : b <= i) - 1

\* One pass of the inner `for col in 0..8` of apply_foundation_moves: the
\* lowest column whose top card is the next card of its foundation.
\* The columns whose top card is anywhere above the top of its foundation.
PromotableColsAbove(g) ==
    {c \in Cols : /\ g.columns[c] # <<>>
                  /\ g.foundations[Last(g.columns[c]).suit] < KING
                  /\ Last(g.columns[c]).rank
                        > g.foundations[Last(g.columns[c]).suit]}

PromotableCols(g) ==
    {c \in Cols : /\ g.columns[c] # <<>>
                  /\ g.foundations[Last(g.columns[c]).suit] < KING
                  /\ Last(g.columns[c]).rank
                        = g.foundations[Last(g.columns[c]).suit] + 1}

\* The body of the outer loop run once: at most one card is promoted.
promote_once(g) ==
    IF PromotableCols(g) = {} THEN g
    ELSE LET col  == CHOOSE c \in PromotableCols(g) :
                        \A d \in PromotableCols(g) : c <= d
             card == Last(g.columns[col])
         IN  [g EXCEPT !.foundations[card.suit] = @ + 1,
                       !.columns[col] = Front(@)]

RECURSIVE apply_foundation_moves(_)
apply_foundation_moves(g) ==
    IF PromotableCols(g) = {} THEN g
    ELSE LET col  == CHOOSE c \in PromotableCols(g) :
                        \A d \in PromotableCols(g) : c <= d
             card == Last(g.columns[col])
         IN  apply_foundation_moves(
                 [g EXCEPT !.foundations[card.suit] = @ + 1,
                           !.columns[col] = Front(@)])

\* The states of the game at the start of each iteration of the outer loop
\* of apply_foundation_moves, the last being the one where has_move stays
\* false and the loop is left.
RECURSIVE PromotionTrace(_)
PromotionTrace(g) ==
    IF PromotableCols(g) = {} THEN <<g>>
    ELSE LET col  == CHOOSE c \in PromotableCols(g) :
                        \A d \in PromotableCols(g) : c <= d
             card == Last(g.columns[col])
         IN  <<g>> \o PromotionTrace(
                 [g EXCEPT !.foundations[card.suit] = @ + 1,
                           !.columns[col] = Front(@)])

\* The loop of Game::new: card i is pushed on column i % 8.
RECURSIVE DealFrom(_, _, _)
DealFrom(g, cards, i) ==
    IF i >= Len(cards) THEN g
    ELSE DealFrom([g EXCEPT !.columns[i % 8] = Append(@, cards[i + 1])], cards, i + 1)

\* Game::new without its call of apply_foundation_moves.
Game_new_unpromoted(cards) == DealFrom(EmptyGame, cards, 0)

\* Game::new: the cards are dealt on the empty game, then promoted.
Game_new(cards) == apply_foundation_moves(DealFrom(EmptyGame, cards, 0))

(* ------------------------------------------------------------- actions *)

Act(t, src, dst, n) ==
    [action_type |-> t, source |-> src, dest |-> dst, pile_size |-> n]

\* `for (i, col) in game.columns.iter().enumerate()`: the top card of each
\* non-empty column that its foundation accepts.
ColToFoundationMoves(g) ==
    Flatten([k \in 1..8 |->
        LET i   == k - 1
            col == g.columns[i]
        IN  IF col = <<>> THEN <<>>
            ELSE IF can_move_to_foundation(g, Last(col))
                 THEN <<Act("ColToFoundation", i, Last(col).suit, 1)>>
                 ELSE <<>>])

FreecellToFoundationMoves(g) ==
    Flatten([k \in 1..4 |->
        LET fc_index == k - 1
            freecell == g.freecells[fc_index]
        IN  IF freecell # <<>> /\ can_move_to_foundation(g, freecell[1])
            THEN <<Act("FreecellToFoundation", fc_index, freecell[1].suit, 1)>>
            ELSE <<>>])

\* seq_len: 1 plus the number of adjacent pairs, counted from the top of the
\* column downwards, that satisfy can_stack_on before the first that does not.
seq_len(source_col) ==
    LET n == Len(source_col)
        stacked(k) == can_stack_on(source_col[n - k], source_col[n - k + 1])
    IN  1 + Cardinality({k \in 1..(n - 1) : \A m \in 1..k : stacked(m)})

PileSizesInclusive(len) == 1..len

\* `for pile_size in 1..seq_len`: a Rust range excludes its upper end.
PileSizes(len) == 1..(len - 1)

ColToColMoves(g, i) ==
    LET source_col == g.columns[i]
        len        == seq_len(source_col)
        sizes      == Ascending(PileSizes(len))
    IN  Flatten([k \in 1..8 |->
            LET j          == k - 1
                target_col == g.columns[j]
            IN  IF i = j THEN <<>>
                ELSE IF len = Len(target_col) /\ target_col = <<>>
                THEN <<>>
                ELSE Flatten([p \in 1..Len(sizes) |->
                        LET pile_size == sizes[p]
                        IN  IF target_col = <<>>
                            THEN <<Act("ColToCol", i, j, pile_size)>>
                            ELSE IF can_stack_on(Last(target_col),
                                        source_col[Len(source_col) - pile_size + 1])
                                 THEN <<Act("ColToCol", i, j, pile_size)>>
                                 ELSE <<>>])])

\* `for freecell_index in 0..4 { if none { push; break } }`
ColToFreecellMoves(g, i) ==
    LET empty == {f \in Cells : g.freecells[f] = <<>>}
    IN  IF empty = {} THEN <<>>
        ELSE <<Act("ColToFreecell", i,
                   CHOOSE f \in empty : \A e \in empty : f <= e, 1)>>

\* The freecell-to-column block of game.rs, which visits every column, put
\* inside the per-column loop.
FreecellToColEvery(g, i) ==
    Flatten([k \in 1..4 |->
        LET fc_index == k - 1
            freecell == g.freecells[fc_index]
        IN  IF freecell = <<>> THEN <<>>
            ELSE Flatten([t \in 1..8 |->
                    IF g.columns[t - 1] = <<>>
                       \/ can_stack_on(Last(g.columns[t - 1]), freecell[1])
                    THEN <<Act("FreecellToCol", fc_index, t - 1, 1)>>
                    ELSE <<>>])])

\* "Move from freecells to columns": it sits inside the loop over the
\* non-empty column i, which is its destination.
FreecellToColMoves(g, i) ==
    LET source_col == g.columns[i]
    IN  Flatten([k \in 1..4 |->
            LET fc_index == k - 1
                freecell == g.freecells[fc_index]
            IN  IF freecell = <<>> THEN <<>>
                ELSE IF source_col = <<>>
                     THEN <<Act("FreecellToCol", fc_index, i, 1)>>
                     ELSE IF can_stack_on(Last(source_col), freecell[1])
                          THEN <<Act("FreecellToCol", fc_index, i, 1)>>
                          ELSE <<>>])

\* The generator with the freecell move of a cascade pushed before its
\* cascade-to-cascade moves.
get_moves_freecell_first(g) ==
    ColToFoundationMoves(g)
    \o FreecellToFoundationMoves(g)
    \o Flatten([k \in 1..8 |->
            LET i == k - 1
            IN  IF g.columns[i] = <<>> THEN <<>>
                ELSE ColToFreecellMoves(g, i)
                     \o ColToColMoves(g, i)
                     \o FreecellToColMoves(g, i)])

\* The generator without the `continue` on an empty source cascade.
get_moves_no_skip(g) ==
    ColToFoundationMoves(g)
    \o FreecellToFoundationMoves(g)
    \o Flatten([k \in 1..8 |->
            LET i == k - 1
            IN  ColToColMoves(g, i)
                \o ColToFreecellMoves(g, i)
                \o FreecellToColMoves(g, i)])

get_moves(g) ==
    ColToFoundationMoves(g)
    \o FreecellToFoundationMoves(g)
    \o Flatten([k \in 1..8 |->
            LET i == k - 1
            IN  IF g.columns[i] = <<>> THEN <<>>
                ELSE ColToColMoves(g, i)
                     \o ColToFreecellMoves(g, i)
                     \o FreecellToColMoves(g, i)])

(* ------------------------------------------------------------ apply_move *)

\* A promotion that adds two to the counter of the foundation.
apply_ColToFoundation_by_two(g, action) ==
    LET card == Last(g.columns[action.source])
    IN  [g EXCEPT !.columns[action.source] = Front(@),
                  !.foundations[card.suit] = @ + 2]

apply_ColToFoundation(g, action) ==
    LET card == Last(g.columns[action.source])
    IN  [g EXCEPT !.columns[action.source] = Front(@),
                  !.foundations[card.suit] = @ + 1]

apply_FreecellToFoundation(g, action) ==
    LET card == g.freecells[action.source][1]
    IN  [g EXCEPT !.freecells[action.source] = <<>>,
                  !.foundations[card.suit] = @ + 1]

\* The card is copied to the freecell and left on the column.
apply_ColToFreecellKeep(g, action) ==
    LET card == Last(g.columns[action.source])
    IN  [g EXCEPT !.freecells[action.dest] = <<card>>]

apply_ColToFreecell(g, action) ==
    LET card == Last(g.columns[action.source])
    IN  [g EXCEPT !.columns[action.source] = Front(@),
                  !.freecells[action.dest] = <<card>>]

apply_FreecellToCol(g, action) ==
    LET card == g.freecells[action.source][1]
    IN  [g EXCEPT !.freecells[action.source] = <<>>,
                  !.columns[action.dest] = Append(@, card)]

apply_ColToCol(g, action) ==
    LET src          == g.columns[action.source]
        moving_cards == SubSeq(src, Len(src) - action.pile_size + 1, Len(src))
        drained      == [g EXCEPT !.columns[action.source] =
                            SubSeq(src, 1, Len(src) - action.pile_size)]
    IN  [drained EXCEPT !.columns[action.dest] = @ \o moving_cards]

\* Solver::apply_move: the move on a clone of the game, and nothing else.
apply_move(g, action) ==
    CASE action.action_type = "ColToFoundation"      -> apply_ColToFoundation(g, action)
      [] action.action_type = "FreecellToFoundation" -> apply_FreecellToFoundation(g, action)
      [] action.action_type = "ColToFreecell"        -> apply_ColToFreecell(g, action)
      [] action.action_type = "FreecellToCol"        -> apply_FreecellToCol(g, action)
      [] action.action_type = "ColToCol"             -> apply_ColToCol(g, action)

\* The inputs on which apply_move panics: an index out of range, pop() or
\* take() giving None to unwrap(), or a drain starting below index 0 (the
\* usize subtraction overflows in a debug build and the wrapped start is
\* past the end in a release build).
apply_move_panics(g, action) ==
    CASE action.action_type = "ColToFoundation" ->
            action.source \notin Cols \/ g.columns[action.source] = <<>>
      [] action.action_type = "FreecellToFoundation" ->
            action.source \notin Cells \/ g.freecells[action.source] = <<>>
      [] action.action_type = "ColToFreecell" ->
            \/ action.source \notin Cols
            \/ g.columns[action.source] = <<>>
            \/ action.dest \notin Cells
      [] action.action_type = "FreecellToCol" ->
            \/ action.source \notin Cells
            \/ g.freecells[action.source] = <<>>
            \/ action.dest \notin Cols
      [] action.action_type = "ColToCol" ->
            \/ action.source \notin Cols
            \/ action.pile_size > Len(g.columns[action.source])
            \/ action.dest \notin Cols

(* ------------------------------------------------- game.rs: Action, apply *)

\* A Result: Ok(value) or Err.
Ok(v) == [status |-> "Ok", value |-> v]

Err == [status |-> "Err"]

\* Action::new without its test of pile_size.
Action_new_any_pile(from, to, pile_size) ==
    IF from >= 12 \/ to >= 12 THEN [status |-> "Err"]
    ELSE IF from = to THEN [status |-> "Err"]
    ELSE [status |-> "Ok",
          value |-> [from |-> from, to |-> to, pile_size |-> pile_size]]

\* Action::new of game.rs: slots 0..7 are the columns, 8..11 the freecells.
Action_new(from, to, pile_size) ==
    IF from >= 12 \/ to >= 12 THEN Err
    ELSE IF from = to THEN Err
    ELSE IF (from > 7 \/ to > 7) /\ pile_size > 1 THEN Err
    ELSE Ok([from |-> from, to |-> to, pile_size |-> pile_size])

stock(action) == action.to >= 8

destock(action) == action.from >= 8

Min(a, b) == IF a <= b THEN a ELSE b

\* Game::max_card_move: ((1 << free_columns_count) * (freecells_count + 1)).min(13)
\* The capacity with every empty column counted, whatever the destination.
max_card_move_keep_column(g, remove_one_column) ==
    LET freecells_count == Cardinality({f \in Cells : g.freecells[f] = <<>>})
        empty_columns   == Cardinality({c \in Cols : g.columns[c] = <<>>})
    IN  Min((2 ^ empty_columns) * (freecells_count + 1), 13)

\* A capacity of thirteen cards whatever the free space.
max_card_move_thirteen(g, remove_one_column) == KING

max_card_move(g, remove_one_column) ==
    LET freecells_count == Cardinality({f \in Cells : g.freecells[f] = <<>>})
        empty_columns   == Cardinality({c \in Cols : g.columns[c] = <<>>})
        free_columns_count ==
            IF remove_one_column /\ empty_columns > 0
            THEN empty_columns - 1 ELSE empty_columns
    IN  Min((2 ^ free_columns_count) * (freecells_count + 1), 13)

\* Game::get_all_possible_moves_between_columns: the Results of Action::new
\* that the function unwraps and pushes, in order.  The third argument given
\* to Action::new is the offset of the first moved card in the column.
get_all_possible_moves_between_columns(g, from, to) ==
    LET source == g.columns[from]
        target == g.columns[to]
        max_moves == Min(max_card_move(g, target = <<>>), max_sequence(source))
    IN  IF source = <<>> THEN <<>>
        ELSE Flatten([i \in 1..max_moves |->
                LET offset == Len(source) - i
                IN  IF target = <<>> THEN <<Action_new(from, to, offset)>>
                    ELSE IF can_stack(Last(target), source[offset + 1])
                         THEN <<Action_new(from, to, offset)>>
                         ELSE <<>>])

\* The same loop without its break: a move to every empty freecell.
MovesToEveryFreecell(g, from) ==
    IF g.columns[from] = <<>> THEN <<>>
    ELSE Flatten([k \in 1..4 |->
            IF g.freecells[k - 1] = <<>> THEN <<Action_new(from, 8 + (k - 1), 1)>>
            ELSE <<>>])

\* "Check if we can move to freecells": the first empty freecell, if the
\* column has a card.
MovesToFreecell(g, from) ==
    LET empty == {f \in Cells : g.freecells[f] = <<>>}
        first == CHOOSE f \in empty : \A e \in empty : f <= e
    IN  IF empty = {} \/ g.columns[from] = <<>> THEN <<>>
        ELSE IF Action_new(from, 8 + first, 1).status = "Ok"
             THEN <<Action_new(from, 8 + first, 1)>>
             ELSE <<>>

\* "Check if we can move from freecells to columns".
MovesFromFreecells(g) ==
    Flatten([k \in 1..4 |->
        LET freecell_index == k - 1
            cell == g.freecells[freecell_index]
        IN  IF cell = <<>> THEN <<>>
            ELSE Flatten([t \in 1..8 |->
                    LET to == t - 1
                    IN  IF g.columns[to] # <<>> /\ ~can_stack(Last(g.columns[to]), cell[1])
                        THEN <<>>
                        ELSE IF Action_new(8 + freecell_index, to, 1).status = "Ok"
                             THEN <<Action_new(8 + freecell_index, to, 1)>>
                             ELSE <<>>])])

\* The Results Game::get_all_possible_moves collects, in order.
PossibleMoveResults(g) ==
    Flatten([f \in 1..8 |->
        Flatten([t \in 1..8 |-> get_all_possible_moves_between_columns(g, f - 1, t - 1)])
        \o MovesToFreecell(g, f - 1)])
    \o MovesFromFreecells(g)

\* Game::get_all_possible_moves panics when an Action::new it unwraps is Err.
get_all_possible_moves_panics(g) ==
    LET results == PossibleMoveResults(g)
    IN  \E k \in 1..Len(results) : results[k].status = "Err"

\* Game::get_all_possible_moves: the actions pushed.
get_all_possible_moves(g) ==
    LET results == PossibleMoveResults(g)
        pushed  == Flatten([k \in 1..Len(results) |->
                      IF results[k].status = "Ok" THEN <<results[k]>> ELSE <<>>])
    IN  [k \in 1..Len(pushed) |-> pushed[k].value]

\* The outcome of a call that may abort: Ok or Err with the game it leaves,
\* or Panic.
Outcome(st, g) == [status |-> st, game |-> g]

\* Game::move_between_columns: the cards from offset pile_size on leave the
\* source before the destination is tested.
move_between_columns(g, action) ==
    LET source        == g.columns[action.from]
        cards_to_move == SubSeq(source, action.pile_size + 1, Len(source))
        cut           == [g EXCEPT !.columns[action.from] =
                              SubSeq(source, 1, action.pile_size)]
        target        == cut.columns[action.to]
    IN  IF action.pile_size > Len(source) THEN Outcome("Panic", g)
        ELSE IF /\ target # <<>>
                /\ \E k \in 1..Len(cards_to_move) :
                       ~can_stack(Last(target), cards_to_move[k])
             THEN Outcome("Err", cut)
             ELSE Outcome("Ok", [cut EXCEPT !.columns[action.to] = @ \o cards_to_move])

\* Game::move_to_freecell
move_to_freecell(g, action) ==
    LET freecell_index == action.to - 8
        source         == g.columns[action.from]
    IN  IF freecell_index \notin Cells THEN Outcome("Panic", g)
        ELSE IF g.freecells[freecell_index] # <<>> THEN Outcome("Err", g)
        ELSE Outcome("Ok",
                [g EXCEPT !.freecells[freecell_index] =
                              IF source = <<>> THEN <<>> ELSE <<Last(source)>>,
                          !.columns[action.from] =
                              IF source = <<>> THEN <<>> ELSE Front(source)])

\* Game::move_from_freecell: the freecell is indexed by action.to - 8, a
\* usize subtraction that overflows for a column destination (a panic in a
\* debug build, an out-of-range index after wrapping in a release build).
move_from_freecell(g, action) ==
    LET freecell_index == action.to - 8
    IN  IF freecell_index \notin Cells THEN Outcome("Panic", g)
        ELSE IF g.freecells[freecell_index] = <<>> THEN Outcome("Ok", g)
        ELSE IF action.to \notin Cols THEN Outcome("Panic", g)
        ELSE LET card   == g.freecells[freecell_index][1]
                 taken  == [g EXCEPT !.freecells[freecell_index] = <<>>]
                 target == g.columns[action.to]
             IN  IF target # <<>> /\ ~can_stack(Last(target), card)
                 THEN Outcome("Err", taken)
                 ELSE Outcome("Ok", [taken EXCEPT !.columns[action.to] = Append(@, card)])

\* Game::apply: self.columns[action.from] is indexed first, the three moves
\* are unwrapped, and promotion follows.
Game_apply(g, action) ==
    IF action.from \notin Cols THEN Outcome("Panic", g)
    ELSE IF action.pile_size >= Len(g.columns[action.from]) THEN Outcome("Err", g)
    ELSE LET moved == IF destock(action) THEN move_from_freecell(g, action)
                      ELSE IF stock(action) THEN move_to_freecell(g, action)
                      ELSE move_between_columns(g, action)
         IN  IF moved.status # "Ok" THEN Outcome("Panic", g)
             ELSE Outcome("Ok", apply_foundation_moves(moved.game))

(* ------------------------------------------------------ the canonical key *)

\* The suit bits dropped: the byte is the rank alone.
encode_rank(self) == self.rank

\* Card::encode: ((self.suit as u8) << 4) as u8 + self.rank, on 8 bits; the
\* sum stays below 256 for the four suits and ranks up to 207.
encode(self) == ((self.suit * 16) % 256) + self.rank

\* Card::decode with the arms of Club and Spade exchanged.
decode_exchanged(value) ==
    LET rank == value % 16
        high == value \div 16
    IN  Cd(rank, CASE high = 0 -> Diamond
                   [] high = 1 -> Spade
                   [] high = 2 -> Club
                   [] OTHER    -> Heart)

\* Card::decode: rank = value & 0xF, suit from value >> 4, Heart for any
\* value of the high bits above 2.
decode(value) ==
    LET rank == value % 16
        high == value \div 16
    IN  Cd(rank, CASE high = 0 -> Diamond
                   [] high = 2 -> Spade
                   [] high = 1 -> Club
                   [] high = 3 -> Heart
                   [] OTHER    -> Heart)

\* Ord of Vec<u8>: lexicographic, a proper prefix first.
RECURSIVE LexLeq(_, _)
LexLeq(a, b) ==
    IF a = <<>> THEN TRUE
    ELSE IF b = <<>> THEN FALSE
    ELSE IF a[1] # b[1] THEN a[1] < b[1]
    ELSE LexLeq(Tail(a), Tail(b))

\* sort() of a Vec<Vec<u8>>: the order is total, so the sorted vector does
\* not depend on the algorithm; by insertion here.
RECURSIVE InsertVec(_, _)
InsertVec(x, sorted) ==
    IF sorted = <<>> THEN <<x>>
    ELSE IF LexLeq(x, sorted[1]) THEN <<x>> \o sorted
    ELSE <<sorted[1]>> \o InsertVec(x, Tail(sorted))

RECURSIVE sort_vecs(_)
sort_vecs(v) == IF v = <<>> THEN <<>> ELSE InsertVec(v[1], sort_vecs(Tail(v)))

\* sort() of a Vec<u8>.
RECURSIVE InsertByte(_, _)
InsertByte(x, sorted) ==
    IF sorted = <<>> THEN <<x>>
    ELSE IF x <= sorted[1] THEN <<x>> \o sorted
    ELSE <<sorted[1]>> \o InsertByte(x, Tail(sorted))

RECURSIVE sort_bytes(_)
sort_bytes(v) == IF v = <<>> THEN <<>> ELSE InsertByte(v[1], sort_bytes(Tail(v)))

\* The encoded columns left in slot order.
cols_data_unsorted(g) ==
    [k \in 1..8 |-> [n \in 1..Len(g.columns[k - 1]) |-> encode(g.columns[k - 1][n])]]

\* cols_data of Hash for Game: the columns encoded, then sorted.
cols_data(g) ==
    sort_vecs([k \in 1..8 |->
        [n \in 1..Len(g.columns[k - 1]) |-> encode(g.columns[k - 1][n])]])

\* free_data of Hash for Game: the freecells encoded, None as 0, then sorted.
free_data(g) ==
    sort_bytes([k \in 1..4 |->
        IF g.freecells[k - 1] = <<>> THEN 0 ELSE encode(g.freecells[k - 1][1])])

\* What Hash for Game feeds the hasher, in order; hash_key is the hasher's
\* digest of it.
Game_hash(g) == <<cols_data(g), free_data(g), [k \in 1..4 |-> g.foundations[k - 1]]>>

(* -------------------------------------------------------------- heuristic *)

\* The adjacent pairs (window[0], window[1]) of col.windows(2), over all
\* columns, as <<column, index of window[0]>>.
Windows(g) ==
    {w \in Cols \X (1..52) : w[2] < Len(g.columns[w[1]])}

\* Solver::heuristic, an f32: the cards not on the foundations, minus 0.3
\* for each window can_stack_on accepts, plus 0.5 for each occupied
\* freecell, plus 0.5 for each window whose first card has the smaller
\* rank.  The value here is the decimal sum in tenths (10 times the
\* score), which the f32 sum approximates.
heuristic(g) ==
    LET cards_remaining ==
            52 - (g.foundations[0] + g.foundations[1] + g.foundations[2] + g.foundations[3])
        stacked  == {w \in Windows(g) :
                        can_stack_on(g.columns[w[1]][w[2]], g.columns[w[1]][w[2] + 1])}
        blocked  == {w \in Windows(g) :
                        g.columns[w[1]][w[2]].rank < g.columns[w[1]][w[2] + 1].rank}
    IN  10 * cards_remaining
        - 3 * Cardinality(stacked)
        + 5 * (4 - count_free_cells(g))
        + 5 * Cardinality(blocked)

(* --------------------------------------------------------------- frontier *)

\* A HeapNode, by the two fields its order reads.
Node(f_score, counter) == [f_score |-> f_score, counter |-> counter]

\* Ord::cmp of i32 and of u64.
int_cmp(a, b) == IF a < b THEN "Less" ELSE IF a = b THEN "Equal" ELSE "Greater"

\* The order of the fields themselves, without the exchange of self and
\* other.
cmp_natural(self, other) ==
    IF int_cmp(self.f_score, other.f_score) # "Equal"
    THEN int_cmp(self.f_score, other.f_score)
    ELSE int_cmp(self.counter, other.counter)

\* Ord for HeapNode: other.f_score.cmp(&self.f_score), then
\* other.counter.cmp(&self.counter).
cmp(self, other) ==
    IF int_cmp(other.f_score, self.f_score) # "Equal"
    THEN int_cmp(other.f_score, self.f_score)
    ELSE int_cmp(other.counter, self.counter)

\* BinaryHeap::pop returns a greatest element of the heap under Ord: the
\* positions of the nodes no other node is Greater than.
Greatest(h) ==
    {k \in 1..Len(h) : \A j \in 1..Len(h) : cmp(h[j], h[k]) # "Greater"}

\* h without its element at position k.
Without(h, k) == SubSeq(h, 1, k - 1) \o SubSeq(h, k + 1, Len(h))

(* ----------------------------------------------------------------- solve *)

None == <<>>

Some(x) == <<x>>

\* Solver::solve: the body is `None`; it reads neither the game nor max_nodes
\* and, taking &self, writes no field of the solver.
solve(solver_game, budget) == None

(* ---------------------------------------------------------------- inputs *)

\* The deck of generate_random_deck before shuffling, dealt from the highest
\* rank down: every column ends in the lowest card of its suit.
ReverseDeal == [k \in 1..52 |-> Cd(KING - ((k - 1) \div 4), (k - 1) % 4)]

\* The deal of the move-generator scenario: 1D 1C 1S 1H 2D 2C 2S 2H ...
SortedDeal == [k \in 1..52 |-> Cd(((k - 1) \div 4) + 1, (k - 1) % 4)]

\* A deal given by its eight columns (four of seven cards, four of six).
MixedColumns ==
    << <<Cd(13, Diamond), Cd(12, Diamond), Cd(11, Diamond), Cd(10, Diamond),
         Cd(9, Diamond), Cd(1, Diamond), Cd(2, Diamond)>>,
       <<Cd(13, Club), Cd(12, Club), Cd(11, Club), Cd(10, Club),
         Cd(9, Club), Cd(3, Diamond), Cd(4, Club)>>,
       <<Cd(13, Spade), Cd(11, Spade), Cd(9, Spade), Cd(7, Spade),
         Cd(5, Spade), Cd(3, Spade), Cd(1, Spade)>>,
       <<Cd(13, Heart), Cd(11, Heart), Cd(9, Heart), Cd(7, Heart),
         Cd(5, Heart), Cd(3, Heart), Cd(1, Heart)>>,
       <<Cd(8, Diamond), Cd(7, Diamond), Cd(6, Diamond), Cd(5, Diamond),
         Cd(4, Diamond), Cd(1, Club)>>,
       <<Cd(8, Club), Cd(7, Club), Cd(6, Club), Cd(5, Club),
         Cd(2, Club), Cd(3, Club)>>,
       <<Cd(12, Spade), Cd(10, Spade), Cd(8, Spade), Cd(6, Spade),
         Cd(4, Spade), Cd(2, Spade)>>,
       <<Cd(12, Heart), Cd(10, Heart), Cd(8, Heart), Cd(6, Heart),
         Cd(2, Heart), Cd(4, Heart)>> >>

MixedDeal == [k \in 1..52 |-> MixedColumns[((k - 1) % 8) + 1][((k - 1) \div 8) + 1]]

\* A deal whose column 0 is a run of seven cards, 2C 3D 4C 5D 6C 7D 8C from
\* the bottom up, beside a column ending in 2S; no card is promoted.
RunColumns ==
    << <<Cd(2, Club), Cd(3, Diamond), Cd(4, Club), Cd(5, Diamond),
         Cd(6, Club), Cd(7, Diamond), Cd(8, Club)>>,
       <<Cd(1, Diamond), Cd(3, Spade), Cd(5, Heart), Cd(8, Diamond),
         Cd(10, Diamond), Cd(11, Heart), Cd(2, Spade)>>,
       <<Cd(1, Club), Cd(3, Heart), Cd(6, Diamond), Cd(8, Spade),
         Cd(10, Club), Cd(12, Diamond), Cd(13, Spade)>>,
       <<Cd(1, Spade), Cd(4, Diamond), Cd(6, Spade), Cd(8, Heart),
         Cd(10, Spade), Cd(12, Club), Cd(13, Heart)>>,
       <<Cd(1, Heart), Cd(4, Spade), Cd(6, Heart), Cd(9, Diamond),
         Cd(10, Heart), Cd(12, Spade)>>,
       <<Cd(2, Diamond), Cd(4, Heart), Cd(7, Club), Cd(9, Club),
         Cd(11, Diamond), Cd(12, Heart)>>,
       <<Cd(2, Heart), Cd(5, Club), Cd(7, Spade), Cd(9, Spade), Cd(11, Club),
         Cd(13, Diamond)>>,
       <<Cd(3, Club), Cd(5, Spade), Cd(7, Heart), Cd(9, Heart),
         Cd(11, Spade), Cd(13, Club)>> >>

RunDeal == [k \in 1..52 |-> RunColumns[((k - 1) % 8) + 1][((k - 1) \div 8) + 1]]

Deals == {ReverseDeal, SortedDeal, MixedDeal, RunDeal}

\* Positions built directly, as the tests build a Game from its fields: card
\* k of GenCards goes to slot place[k], slots 0..2 being columns 0..2 and
\* slots 3..4 freecells 0..1.
GenCards ==
    <<Cd(5, Diamond), Cd(4, Club), Cd(5, Heart), Cd(6, Spade),
      Cd(3, Heart), Cd(7, Diamond)>>

GenSlots == 0..4

GenFoundations == { <<0, 0, 0, 0>>, <<4, 3, 3, 4>> }

RECURSIVE Pick(_, _, _)
Pick(place, slot, k) ==
    IF k > NumGenCards THEN <<>>
    ELSE (IF place[k] = slot THEN <<GenCards[k]>> ELSE <<>>)
         \o Pick(place, slot, k + 1)

GenGame(place, found) ==
    [columns     |-> [c \in Cols |-> IF c <= 2 THEN Pick(place, c, 1) ELSE <<>>],
     freecells   |-> [f \in Cells |-> IF f <= 1 THEN Pick(place, f + 3, 1) ELSE <<>>],
     foundations |-> [s \in Suits |-> found[s + 1]]]

GenGames ==
    {GenGame(place, found) :
        place \in {q \in [1..NumGenCards -> GenSlots] :
                      \A f \in 3..4 : Cardinality({k \in 1..NumGenCards : q[k] = f}) <= 1},
        found \in GenFoundations}

\* Positions where promotions depend on one another: the ace of diamonds can
\* lie on the two, the three can wait in a column or in a freecell, and the
\* ace of clubs is promoted independently of them.
PromoCards == <<Cd(2, Diamond), Cd(1, Diamond), Cd(1, Club), Cd(3, Diamond)>>

RECURSIVE PickPromo(_, _, _)
PickPromo(place, slot, k) ==
    IF k > Len(PromoCards) THEN <<>>
    ELSE (IF place[k] = slot THEN <<PromoCards[k]>> ELSE <<>>)
         \o PickPromo(place, slot, k + 1)

PromoGame(place) ==
    [columns     |-> [c \in Cols |-> IF c <= 2 THEN PickPromo(place, c, 1) ELSE <<>>],
     freecells   |-> [f \in Cells |-> IF f <= 1 THEN PickPromo(place, f + 3, 1) ELSE <<>>],
     foundations |-> [s \in Suits |-> 0]]

PromoGames ==
    {PromoGame(place) :
        place \in {q \in [1..Len(PromoCards) -> GenSlots] :
                      \A f \in 3..4 :
                          Cardinality({k \in 1..Len(PromoCards) : q[k] = f}) <= 1}}

\* Slices Game::new can be given: the three decks, a deck cut short after
\* any number of cards, a deck with one card twice, and a deck with a card
\* too many.
DupDeal == [SortedDeal EXCEPT ![52] = SortedDeal[1]]

LongDeal == Append(MixedDeal, Cd(1, Diamond))

AnyDeals ==
    Deals \cup {SubSeq(MixedDeal, 1, n) : n \in 0..51} \cup {DupDeal, LongDeal}

\* Positions for the Game methods: column card k of ApiCards goes to column
\* place[k] of 0..1, and the freecells of one set of ApiHeld hold their card
\* of ApiCells.
ApiCards == <<Cd(9, Spade), Cd(8, Diamond), Cd(7, Club)>>

ApiCells == <<Cd(8, Heart), Cd(6, Diamond), Cd(13, Spade), Cd(12, Heart)>>

ApiGame(place, held) ==
    [columns     |-> [c \in Cols |->
                        Flatten([k \in 1..Len(ApiCards) |->
                            IF place[k] = c THEN <<ApiCards[k]>> ELSE <<>>])],
     freecells   |-> [f \in Cells |-> IF f \in held THEN <<ApiCells[f + 1]>> ELSE <<>>],
     foundations |-> [s \in Suits |-> 0]]

ApiHeld == {{}, {0}, {0, 2}, {1, 2, 3}, {0, 1, 2, 3}}

ApiGames ==
    {ApiGame(place, held) : place \in [1..Len(ApiCards) -> 0..1], held \in ApiHeld}

\* The cards that fill columns 2..7 of a position without an empty column.
Blockers ==
    <<Cd(3, Club), Cd(3, Spade), Cd(3, Diamond), Cd(3, Heart), Cd(5, Club),
      Cd(9, Club)>>

\* The positions of ApiGames with one card on each of the columns 2..7.
TightGame(place, held) ==
    LET g == ApiGame(place, held)
    IN  [g EXCEPT !.columns =
            [c \in Cols |-> IF c >= 2 THEN <<Blockers[c - 1]>> ELSE g.columns[c]]]

TightGames ==
    {TightGame(place, held) : place \in [1..Len(ApiCards) -> 0..1], held \in ApiHeld}

\* The f_score and counter values of the nodes pushed.
Scores == {-1, 0, 1}

Counters == {0, 1, 2}

\* Slots and offsets of the actions a caller builds itself.
ExtSlots == {0, 1, 7, 8, 9, 11, 12}

ExtPiles == 0..2

(* --------------------------------------------------------- state machine *)

\* Solver::new(game): the solver owns the game, no node explored, nothing
\* visited.
SolverNew(g, lim) ==
    /\ game = g
    /\ initial_game = g
    /\ nodes_explored = 0
    /\ visited_states = {}
    /\ pc = "ready"
    /\ max_nodes = 0
    /\ result = None
    /\ depth = 0
    /\ last = None
    /\ limit = lim

\* Game::new(cards) then Solver::new(game); deck remembers the slice given
\* to Game::new and applied the status of the last Game::apply.
Dealt(cards, lim) ==
    /\ SolverNew(Game_new(cards), lim)
    /\ deck = Some(cards)
    /\ applied = "none"
    /\ heap = <<>>
    /\ popped = None
    /\ made = None

\* A Game built from its public fields, then Solver::new(game).
Built(g, lim) ==
    /\ SolverNew(g, lim)
    /\ deck = None
    /\ applied = "none"
    /\ heap = <<>>
    /\ popped = None
    /\ made = None

\* main: Game::new(&deck), then Solver::new(game).
Init == \E deal \in Deals : Dealt(deal, MaxDepth)

InitGen == \E g \in GenGames : Built(g, GenDepth)

\* Game::new on any slice of cards, a full deck or not.
InitDeal == \E deal \in AnyDeals : Dealt(deal, GenDepth)

\* BinaryHeap::new(): an empty frontier, beside a solver of the empty game.
InitHeap == Built(EmptyGame, 0)

\* The states the Game methods are called on: fresh deals and built games.
InitApi ==
    \/ \E deal \in Deals : Dealt(deal, GenDepth)
    \/ \E g \in ApiGames \cup TightGames : Built(g, GenDepth)

\* One step of the search layer: a move of get_moves(game) is applied by
\* apply_move and the successor becomes the current state.
Move ==
    /\ pc = "ready"
    /\ depth < limit
    /\ LET all_moves == get_moves(game)
       IN  \E k \in 1..Len(all_moves) :
              /\ game' = apply_move(game, all_moves[k])
              /\ last' = Some(all_moves[k])
    /\ depth' = depth + 1
    /\ UNCHANGED <<initial_game, nodes_explored, visited_states, pc, max_nodes,
                   result, limit, deck, applied, heap, popped, made>>

\* solver.solve(max_nodes) on the freshly built solver, as main calls it.
Solve ==
    /\ pc = "ready"
    /\ depth = 0
    /\ \E n \in 0..MaxBudget :
          /\ max_nodes' = n
          /\ result' = solve(initial_game, n)
    /\ pc' = "done"
    /\ UNCHANGED <<game, initial_game, nodes_explored, visited_states, depth, last,
                   limit, deck, applied, heap, popped, made>>

\* game.apply(&action): Ok leaves the moved and promoted game, Err leaves
\* the game as it was, a panic ends the program; otherwise the caller goes
\* on at `after`.
Applying(action, after) ==
    LET out == Game_apply(game, action)
    IN  /\ game' = out.game
        /\ applied' = out.status
        /\ pc' = IF out.status = "Panic" THEN "aborted" ELSE after
        /\ last' = Some(action)
        /\ depth' = depth + 1
        /\ UNCHANGED <<initial_game, nodes_explored, visited_states, max_nodes,
                       result, limit, deck, heap, popped>>

\* An action of get_all_possible_moves() is applied to the game.
Apply ==
    /\ pc = "ready"
    /\ depth < limit
    /\ ~get_all_possible_moves_panics(game)
    /\ LET all_moves == get_all_possible_moves(game)
       IN  \E k \in 1..Len(all_moves) : Applying(all_moves[k], pc)
    /\ UNCHANGED made

\* A caller builds an action of its own making by Action::new and, given
\* Ok, applies it; given Err it has no action to apply.  made keeps the
\* arguments and the Result of Action::new.
ApplyExternal ==
    /\ pc = "ready"
    /\ depth = 0
    /\ \E from \in ExtSlots, to \in ExtSlots, pile_size \in ExtPiles :
          LET res == Action_new(from, to, pile_size)
          IN  /\ made' = Some([from |-> from, to |-> to, pile_size |-> pile_size,
                                result |-> res])
              /\ IF res.status = "Ok" THEN Applying(res.value, "done")
                 ELSE /\ pc' = "done"
                      /\ depth' = depth + 1
                      /\ UNCHANGED <<game, initial_game, nodes_explored,
                                     visited_states, max_nodes, result, last, limit,
                                     deck, applied, heap, popped>>

\* heap.push(HeapNode { f_score, counter, .. })
Push ==
    /\ Len(heap) < MaxHeapLen
    /\ \E f_score \in Scores, counter \in Counters :
          heap' = Append(heap, Node(f_score, counter))
    /\ popped' = None
    /\ UNCHANGED <<game, initial_game, nodes_explored, visited_states, pc, max_nodes,
                   result, depth, last, limit, deck, applied, made>>

\* heap.pop() on a heap that is not empty.
Pop ==
    /\ heap # <<>>
    /\ \E k \in Greatest(heap) :
          /\ popped' = Some(heap[k])
          /\ heap' = Without(heap, k)
    /\ UNCHANGED <<game, initial_game, nodes_explored, visited_states, pc, max_nodes,
                   result, depth, last, limit, deck, applied, made>>

Next == Move \/ Solve

NextHeap == Push \/ Pop

NextApi == Apply \/ ApplyExternal

Spec == Init /\ [][Next]_vars

SpecGen == InitGen /\ [][Next]_vars

SpecDeal == InitDeal /\ [][Next]_vars

SpecApi == InitApi /\ [][NextApi]_vars

SpecHeap == InitHeap /\ [][NextHeap]_vars

\* The solver's moves from the positions of PromoGames.
InitPromo == \E g \in PromoGames : Built(g, GenDepth)

SpecPromo == InitPromo /\ [][Next]_vars

(* ---------------------------------------------------------------- claims *)

\* The cards on the board of g, cascade after cascade and then the freecells,
\* one entry per card position.
OnBoard(g) ==
    Flatten([k \in 1..8 |-> g.columns[k - 1]])
    \o Flatten([k \in 1..4 |-> g.freecells[k - 1]])

\* No cascade top and no freecell card of g is the next card of its foundation.
NoneEligible(g) ==
    /\ \A c \in Cols : g.columns[c] # <<>> =>
          g.foundations[Last(g.columns[c]).suit] + 1 # Last(g.columns[c]).rank
    /\ \A f \in Cells : g.freecells[f] # <<>> =>
          g.foundations[g.freecells[f][1].suit] + 1 # g.freecells[f][1].rank

EmptyBoard(g) == \A c \in Cols : g.columns[c] = <<>>

NoFreecellUsed(g) == \A f \in Cells : g.freecells[f] = <<>>

\* C1: in every state reached from Game::new on a 52-card deal by moves of
\* get_moves applied by apply_move, each of the 52 cards is accounted for
\* exactly once: a card whose rank is above its foundation counter lies on
\* the board exactly once, a card at or below the counter lies nowhere, and
\* the counters stay within 0..13.
C1_CardConservation ==
    /\ \A s \in Suits : game.foundations[s] \in 0..KING
    /\ Cardinality(Range(OnBoard(game))) = Len(OnBoard(game))
    /\ Range(OnBoard(game)) = {c \in Deck : c.rank > game.foundations[c.suit]}

\* C1 witness: a card sits in a freecell and the last move applied put a
\* cascade top on its foundation.
C1_Witness ==
    /\ last # None
    /\ last[1].action_type = "ColToFoundation"
    /\ ~NoFreecellUsed(game)
    /\ ~is_complete(game)

\* C3: on an initial state that is already won, solve with a budget of at
\* least 1 returns Some of the empty path and nodes_explored is exactly 1.
C3_AlreadyWon ==
    (/\ pc = "done"
     /\ max_nodes >= 1
     /\ is_complete(initial_game)
     /\ EmptyBoard(initial_game)
     /\ NoFreecellUsed(initial_game))
    => (result = Some(<<>>) /\ nodes_explored = 1)

\* The smallest budget cut: a budget of one node on a root that is not won
\* and has a move to expand, so that the one pop allowed neither wins nor
\* finds the frontier empty.
BudgetCutAtOne ==
    /\ max_nodes = 1
    /\ ~is_complete(initial_game)
    /\ get_moves(initial_game) # <<>>

\* C4: when solve stops because the node budget is reached it returns None
\* with nodes_explored equal to max_nodes, and nodes_explored never exceeds
\* max_nodes.
C4_BudgetCutoff ==
    pc = "done" =>
        /\ nodes_explored <= max_nodes
        /\ BudgetCutAtOne => (result = None /\ nodes_explored = max_nodes)

\* C5: every successor produced by apply_move has had automatic foundation
\* promotion applied: no cascade top and no freecell card of it is the next
\* card of its foundation.
C5_SuccessorPromoted == last # None => NoneEligible(game)

CascadeToCascade(i, j, k) == Act("ColToCol", i, j, k)

\* C6: for every non-empty cascade i, every other cascade j and every
\* pile_size k up to the length of the in-sequence suffix of i, get_moves
\* emits ColToCol i -> j of k cards whenever j is empty or the k-th card from
\* the top of i stacks on the top of j, except when the whole of cascade i is
\* in sequence and j is empty.
C6_BlockMovesComplete ==
    \A i \in Cols : \A j \in Cols \ {i} :
        LET src == game.columns[i]
            tgt == game.columns[j]
        IN  src # <<>> =>
              \A k \in 1..max_sequence(src) :
                 (/\ tgt = <<>> \/ can_stack(Last(tgt), src[Len(src) - k + 1])
                  /\ ~(max_sequence(src) = Len(src) /\ tgt = <<>>))
                 => CascadeToCascade(i, j, k) \in Range(get_moves(game))

\* The legality preconditions of a move m in g.
Legal(g, m) ==
    CASE m.action_type = "ColToFoundation" ->
            /\ m.source \in Cols /\ g.columns[m.source] # <<>>
            /\ m.pile_size = 1
            /\ g.foundations[Last(g.columns[m.source]).suit] + 1
                  = Last(g.columns[m.source]).rank
      [] m.action_type = "FreecellToFoundation" ->
            /\ m.source \in Cells /\ g.freecells[m.source] # <<>>
            /\ m.pile_size = 1
            /\ g.foundations[g.freecells[m.source][1].suit] + 1
                  = g.freecells[m.source][1].rank
      [] m.action_type = "ColToFreecell" ->
            /\ m.source \in Cols /\ g.columns[m.source] # <<>>
            /\ m.dest \in Cells /\ g.freecells[m.dest] = <<>>
            /\ m.pile_size = 1
      [] m.action_type = "FreecellToCol" ->
            /\ m.source \in Cells /\ g.freecells[m.source] # <<>>
            /\ m.dest \in Cols
            /\ m.pile_size = 1
            /\ g.columns[m.dest] # <<>> =>
                  can_stack(Last(g.columns[m.dest]), g.freecells[m.source][1])
      [] m.action_type = "ColToCol" ->
            /\ m.source \in Cols /\ g.columns[m.source] # <<>>
            /\ m.dest \in Cols
            /\ m.pile_size >= 1
            /\ m.pile_size <= Len(g.columns[m.source])
            /\ m.pile_size <= max_sequence(g.columns[m.source])
            /\ g.columns[m.dest] # <<>> =>
                  can_stack(Last(g.columns[m.dest]),
                            g.columns[m.source][Len(g.columns[m.source]) - m.pile_size + 1])

\* C7: every move get_moves emits satisfies the legality preconditions: a
\* non-empty source, for ColToCol a pile no longer than the source whose
\* cards are in sequence and whose bottom card stacks on a non-empty
\* destination's top, an empty destination freecell, a freecell card that
\* stacks on a non-empty destination's top, foundation moves only of the next
\* card of the suit, and pile_size 1 for every freecell or foundation move.
C7_MovesLegal == \A m \in Range(get_moves(game)) : Legal(game, m)

\* C8: for every occupied freecell f and every cascade j that is empty or
\* whose top the freecell card stacks on, get_moves emits FreecellToCol f -> j.
C8_FreecellToColComplete ==
    \A f \in Cells : \A j \in Cols :
        (/\ game.freecells[f] # <<>>
         /\ \/ game.columns[j] = <<>>
            \/ can_stack(Last(game.columns[j]), game.freecells[f][1]))
        => Act("FreecellToCol", f, j, 1) \in Range(get_moves(game))

\* C9: get_moves never emits a ColToCol move whose pile_size is the full
\* length of its source cascade and whose destination cascade is empty.
C9_NoWholeCascadeToEmpty ==
    \A m \in Range(get_moves(game)) :
        ~(/\ m.action_type = "ColToCol"
          /\ m.pile_size = Len(game.columns[m.source])
          /\ game.columns[m.dest] = <<>>)

\* C9 witness: a cascade of two or more cards that is one movable sequence
\* from bottom to top, an empty cascade beside it, and get_moves offering to
\* move part of the first onto the second.
C9_Witness ==
    \E i \in Cols : \E j \in Cols \ {i} :
        /\ Len(game.columns[i]) >= 2
        /\ seq_len(game.columns[i]) = Len(game.columns[i])
        /\ game.columns[j] = <<>>
        /\ CascadeToCascade(i, j, 1) \in Range(get_moves(game))

\* C10: the list get_moves returns holds no two equal moves.
C10_NoDuplicateMoves ==
    LET all_moves == get_moves(game)
    IN  \A a \in 1..Len(all_moves) : \A b \in 1..Len(all_moves) :
            a # b => all_moves[a] # all_moves[b]

\* C10 witness: a list of at least five moves holding cascade-to-cascade,
\* cascade-to-freecell, freecell-to-cascade and foundation moves together.
C10_Witness ==
    LET all_moves == get_moves(game)
        types     == {all_moves[k].action_type : k \in 1..Len(all_moves)}
    IN  /\ Len(all_moves) >= 5
        /\ {"ColToCol", "ColToFreecell", "FreecellToCol", "ColToFoundation"}
              \subseteq types

\* The freecells of g that are empty.
EmptyCells(g) == {f \in Cells : g.freecells[f] = <<>>}

\* The lowest-index empty freecell of g (when one is empty).
LowestEmptyCell(g) == CHOOSE f \in EmptyCells(g) : \A e \in EmptyCells(g) : f <= e

\* The positions of the cascade-to-freecell moves from cascade i in a list
\* of the solver's generator, and in a list of the game's generator.
SolverToFreecell(moves, i) ==
    {k \in 1..Len(moves) :
        moves[k].action_type = "ColToFreecell" /\ moves[k].source = i}

GameToFreecell(actions, i) ==
    {k \in 1..Len(actions) : actions[k].from = i /\ actions[k].to >= 8}

\* C11: each generator lists exactly one cascade-to-freecell move for every
\* non-empty cascade when a freecell is empty, and it goes to the
\* lowest-index empty freecell; with the four freecells occupied, or from an
\* empty cascade, it lists none.
C11_OneFreecellMove ==
    LET moves   == get_moves(game)
        actions == get_all_possible_moves(game)
    IN  \A i \in Cols :
            IF game.columns[i] # <<>> /\ EmptyCells(game) # {}
            THEN /\ Cardinality(SolverToFreecell(moves, i)) = 1
                 /\ \A k \in SolverToFreecell(moves, i) :
                        moves[k].dest = LowestEmptyCell(game)
                 /\ Cardinality(GameToFreecell(actions, i)) = 1
                 /\ \A k \in GameToFreecell(actions, i) :
                        actions[k].to = 8 + LowestEmptyCell(game)
            ELSE SolverToFreecell(moves, i) = {} /\ GameToFreecell(actions, i) = {}

\* A game.apply has succeeded, freecell 0 is occupied, a higher freecell is
\* empty and a cascade holds a card.
C11_Witness ==
    /\ applied = "Ok"
    /\ game.freecells[0] # <<>>
    /\ EmptyCells(game) # {}
    /\ \E i \in Cols : game.columns[i] # <<>>

\* The four freecells are occupied and a cascade holds a card.
C11_AllOccupied ==
    EmptyCells(game) = {} /\ \E i \in Cols : game.columns[i] # <<>>

\* The place of a move in the order of generation: foundation moves from
\* cascades, then from freecells, then the groups by cascade index; in a
\* group the cascade-to-cascade moves by destination then pile size, the
\* move to a freecell, and the moves from freecells onto the cascade.
OrderKey(m) ==
    CASE m.action_type = "ColToFoundation"      -> m.source
      [] m.action_type = "FreecellToFoundation" -> 8 + m.source
      [] m.action_type = "ColToCol"      -> 1000 * (1 + m.source) + 16 * m.dest + m.pile_size
      [] m.action_type = "ColToFreecell" -> 1000 * (1 + m.source) + 500
      [] m.action_type = "FreecellToCol" -> 1000 * (1 + m.dest) + 600

\* C12: get_moves lists the ColToFoundation moves by ascending cascade, then
\* the FreecellToFoundation moves by ascending freecell, then one group per
\* cascade in ascending index: its ColToCol moves by ascending destination
\* and then pile size, its ColToFreecell move, its FreecellToCol moves.
C12_GenerationOrder ==
    LET moves == get_moves(game)
    IN  \A a, b \in 1..Len(moves) :
            a < b =>
                \/ OrderKey(moves[a]) < OrderKey(moves[b])
                \/ /\ OrderKey(moves[a]) = OrderKey(moves[b])
                   /\ moves[a].action_type = "FreecellToCol"

\* After a move, the list holds a move of each of the five kinds and moves
\* of two groups.
C12_Witness ==
    LET moves == get_moves(game)
        kinds == {moves[k].action_type : k \in 1..Len(moves)}
    IN  /\ last # None
        /\ kinds = {"ColToFoundation", "FreecellToFoundation", "ColToCol",
                    "ColToFreecell", "FreecellToCol"}
        /\ Cardinality({moves[k].source : k \in {j \in 1..Len(moves) :
                            moves[j].action_type = "ColToFreecell"}}) >= 2

\* C13: in a state reached from Game::new on a legal deal, game.apply
\* returns Ok for every action of get_all_possible_moves().
C13_GeneratedAccepted ==
    deck # None =>
        LET actions == get_all_possible_moves(game)
        IN  \A k \in 1..Len(actions) : Game_apply(game, actions[k]).status = "Ok"

\* C14: game.apply returns Ok or Err, and never panics, for every action
\* that Action::new accepts.
C14_ApplyTotal == applied \in {"none", "Ok", "Err"}

\* C15: in every state reached from a legal deal, apply_move completes on
\* every move of get_moves: the source cascade is non-empty, the source
\* freecell is occupied and pile_size is at most the length of the source.
C15_ApplyMoveNeverFails ==
    LET moves == get_moves(game)
    IN  \A k \in 1..Len(moves) : ~apply_move_panics(game, moves[k])

\* After a move from a deal, the list holds a block move, a move from a
\* freecell and a move to a freecell, and a cascade is empty.
C15_Witness ==
    LET moves == get_moves(game)
        kinds == {moves[k].action_type : k \in 1..Len(moves)}
    IN  /\ last # None
        /\ deck # None
        /\ {"ColToCol", "FreecellToFoundation", "ColToFreecell"} \subseteq kinds
        /\ \E i \in Cols : game.columns[i] = <<>>

\* A legal deal: 52 cards, every card of the deck once.
LegalDeal(cards) == Len(cards) = 52 /\ Range(cards) = Deck

\* C16: Game::new gives no game for a slice that is not a legal deal; a
\* solver holds a game only when the slice it was dealt from is legal.
C16_MalformedRejected ==
    (deck # None /\ pc \in {"ready", "done"}) => LegalDeal(deck[1])

\* g with cascade slots i and j exchanged, with freecell slots e and f
\* exchanged, and with the cascade slots rotated by one.
SwapCols(g, i, j) ==
    [g EXCEPT !.columns = [c \in Cols |->
        IF c = i THEN g.columns[j] ELSE IF c = j THEN g.columns[i] ELSE g.columns[c]]]

SwapCells(g, e, f) ==
    [g EXCEPT !.freecells = [c \in Cells |->
        IF c = e THEN g.freecells[f] ELSE IF c = f THEN g.freecells[e]
        ELSE g.freecells[c]]]

RotateCols(g) == [g EXCEPT !.columns = [c \in Cols |-> g.columns[(c + 1) % 8]]]

\* C17: the canonical key (sorted encoded cascades, sorted encoded freecells
\* with 0 for an empty one, foundations) does not change when cascade slots
\* are permuted or freecell slots are permuted; every permutation is a
\* product of the exchanges of two slots.
C17_KeyPermutationInvariant ==
    LET key == Game_hash(game)
    IN  /\ \A i, j \in Cols : i < j => Game_hash(SwapCols(game, i, j)) = key
        /\ \A e, f \in Cells : e < f => Game_hash(SwapCells(game, e, f)) = key
        /\ Game_hash(RotateCols(game)) = key

\* After a move, two cascades differ, and an occupied and an empty freecell
\* exist, so that exchanging slots changes the state.
C17_Witness ==
    /\ last # None
    /\ \E i, j \in Cols :
          /\ game.columns[i] # <<>> /\ game.columns[j] # <<>>
          /\ game.columns[i] # game.columns[j]
          /\ SwapCols(game, i, j) # game
    /\ \E e, f \in Cells :
          /\ game.freecells[e] # <<>> /\ game.freecells[f] = <<>>
          /\ SwapCells(game, e, f) # game

\* g and h hold the same multiset of cascades / of freecell contents.
SameCascades(g, h) ==
    \A c \in Cols :
        /\ Cardinality({d \in Cols : g.columns[d] = g.columns[c]})
             = Cardinality({d \in Cols : h.columns[d] = g.columns[c]})
        /\ Cardinality({d \in Cols : g.columns[d] = h.columns[c]})
             = Cardinality({d \in Cols : h.columns[d] = h.columns[c]})

SameCells(g, h) ==
    \A c \in Cells :
        /\ Cardinality({d \in Cells : g.freecells[d] = g.freecells[c]})
             = Cardinality({d \in Cells : h.freecells[d] = g.freecells[c]})
        /\ Cardinality({d \in Cells : g.freecells[d] = h.freecells[c]})
             = Cardinality({d \in Cells : h.freecells[d] = h.freecells[c]})

\* g with the top cards of cascades i and j exchanged, and g with the card
\* of freecell f exchanged with the top card of cascade i.
SwapTops(g, i, j) ==
    [g EXCEPT !.columns[i] = Append(Front(g.columns[i]), Last(g.columns[j])),
              !.columns[j] = Append(Front(g.columns[j]), Last(g.columns[i]))]

SwapCellTop(g, f, i) ==
    [g EXCEPT !.freecells[f] = <<Last(g.columns[i])>>,
              !.columns[i] = Append(Front(g.columns[i]), g.freecells[f][1])]

\* States to compare with g: the state the moves started from, g with one
\* foundation one higher, g with two cards of the board exchanged, and g
\* with a top card put in an empty freecell.
Others(g) ==
    {initial_game}
    \cup {[g EXCEPT !.foundations[s] = @ + 1] : s \in Suits}
    \cup {SwapTops(g, i, j) :
            i \in {c \in Cols : g.columns[c] # <<>>},
            j \in {c \in Cols : g.columns[c] # <<>>}}
    \cup {SwapCellTop(g, f, i) :
            f \in {c \in Cells : g.freecells[c] # <<>>},
            i \in {c \in Cols : g.columns[c] # <<>>}}
    \cup {apply_ColToFreecell(g, Act("ColToFreecell", i, f, 1)) :
            i \in {c \in Cols : g.columns[c] # <<>>},
            f \in {c \in Cells : g.freecells[c] = <<>>}}

\* C18: two states whose foundations differ, or whose multisets of cascades
\* differ, or whose multisets of freecell contents differ, have different
\* canonical keys.
C18_KeyDistinguishes ==
    LET key == Game_hash(game)
    IN  \A h \in Others(game) :
            \/ /\ game.foundations = h.foundations
               /\ SameCascades(game, h)
               /\ SameCells(game, h)
            \/ Game_hash(h) # key

\* After a move, the state differs from the one the moves started from in
\* its cascades, and two cascades end in cards of one rank and two suits.
C18_Witness ==
    /\ last # None
    /\ ~SameCascades(game, initial_game)
    /\ \E i, j \in Cols :
          /\ game.columns[i] # <<>> /\ game.columns[j] # <<>>
          /\ Last(game.columns[i]).rank = Last(game.columns[j]).rank
          /\ Last(game.columns[i]).suit # Last(game.columns[j]).suit
          /\ ~SameCascades(game, SwapTops(game, i, j))

\* Diamond and Heart are one colour, Club and Spade the other.
Colour(c) == IF c.suit \in {Diamond, Heart} THEN "red" ELSE "black"

\* The rule of the game: above goes on below when the colours differ and
\* below is one rank higher.
StacksOn(below, above) ==
    Colour(below) # Colour(above) /\ below.rank = above.rank + 1

\* C19: for all cards below and above of the game, below.can_stack(above)
\* and can_stack_on(below, above) are both true exactly when the colours
\* differ and below.rank = above.rank + 1.
C19_StackingRule ==
    \A below, above \in Range(OnBoard(game)) :
        /\ can_stack(below, above) <=> StacksOn(below, above)
        /\ can_stack_on(below, above) <=> StacksOn(below, above)

\* The cards of suit s among the cards of sequence q.
OfSuit(q, s) == {q[k] : k \in {n \in 1..Len(q) : q[n].suit = s}}

\* C20: Game::new puts card i of its input at index i div 8 of cascade
\* i mod 8 and nowhere else, with empty freecells and foundations at 0, and
\* returns that layout promoted to fixpoint: every cascade keeps a prefix of
\* what it was dealt, the cards taken off are, suit by suit, the ranks up to
\* the foundation, and no top card is the next card of its foundation.
C20_DealRoundRobin ==
    deck # None =>
        LET cards  == deck[1]
            layout == DealFrom(EmptyGame, cards, 0)
            g      == initial_game
            taken  == Flatten([k \in 1..8 |->
                         SubSeq(layout.columns[k - 1], Len(g.columns[k - 1]) + 1,
                                Len(layout.columns[k - 1]))])
        IN  /\ \A i \in 0..(Len(cards) - 1) :
                  /\ Len(layout.columns[i % 8]) > i \div 8
                  /\ layout.columns[i % 8][(i \div 8) + 1] = cards[i + 1]
            /\ Len(Flatten([k \in 1..8 |-> layout.columns[k - 1]])) = Len(cards)
            /\ \A f \in Cells : layout.freecells[f] = <<>>
            /\ \A s \in Suits : layout.foundations[s] = 0
            /\ \A c \in Cols :
                  /\ Len(g.columns[c]) <= Len(layout.columns[c])
                  /\ g.columns[c] = SubSeq(layout.columns[c], 1, Len(g.columns[c]))
            /\ \A f \in Cells : g.freecells[f] = <<>>
            /\ \A s \in Suits :
                  /\ {c.rank : c \in OfSuit(taken, s)} = 1..g.foundations[s]
                  /\ Cardinality({k \in 1..Len(taken) : taken[k].suit = s})
                       = g.foundations[s]
            /\ \A c \in Cols :
                  g.columns[c] # <<>> =>
                      ~(/\ g.foundations[Last(g.columns[c]).suit] < KING
                        /\ Last(g.columns[c]).rank
                             = g.foundations[Last(g.columns[c]).suit] + 1)

\* A deal of 52 cards of which Game::new promoted some and not all.
C20_Witness ==
    /\ deck # None
    /\ Len(deck[1]) = 52
    /\ \E s \in Suits : initial_game.foundations[s] > 0
    /\ \E c \in Cols : initial_game.columns[c] # <<>>

\* C21: apply_foundation_moves run a second time right after a first run
\* leaves cascades, freecells and foundations as the first run left them.
C21_PromotionIdempotent ==
    LET once == apply_foundation_moves(game)
    IN  apply_foundation_moves(once) = once

\* The first run promotes more than one card of the state.
C21_Witness ==
    LET once == apply_foundation_moves(game)
    IN  \E s, t \in Suits :
           /\ s # t
           /\ once.foundations[s] > game.foundations[s]
           /\ once.foundations[t] > game.foundations[t]

\* a | b on the low n bits.
RECURSIVE BitOr(_, _, _)
BitOr(a, b, n) ==
    IF n = 0 THEN 0
    ELSE (IF a % 2 = 1 \/ b % 2 = 1 THEN 1 ELSE 0) + 2 * BitOr(a \div 2, b \div 2, n - 1)

\* C22: for each of the 52 cards c of the deck dealt, decode(encode(c)) is
\* c, encode(c) is (suit << 4) | rank, and encode(c) is not 0.
C22_EncodeRoundTrip ==
    deck # None =>
        \A k \in 1..Len(deck[1]) :
            LET c == deck[1][k]
            IN  /\ decode(encode(c)) = c
                /\ encode(c) = BitOr((c.suit * 16) % 256, c.rank, 8)
                /\ encode(c) # 0

\* The deck dealt is a full deck: the 52 cards have been encoded and decoded.
C22_Witness == deck # None /\ Range(deck[1]) = Deck /\ last # None

\* n comes before m in the order of the frontier: smaller f_score, or the
\* same f_score and a counter not larger.
Before(n, m) ==
    n.f_score < m.f_score \/ (n.f_score = m.f_score /\ n.counter <= m.counter)

\* C23: the node a pop returns has the smallest f_score of the nodes that
\* were in the heap and, among the nodes of that f_score, the smallest
\* counter: it comes before every node left in the heap.
C23_FrontierOrder ==
    popped # None => \A k \in 1..Len(heap) : Before(popped[1], heap[k])

\* A pop has returned a node while the heap keeps a node of the same
\* f_score and a node of a larger f_score pushed before it.
C23_Witness ==
    /\ popped # None
    /\ \E k \in 1..Len(heap) :
          heap[k].f_score = popped[1].f_score /\ heap[k].counter > popped[1].counter
    /\ heap # <<>>
    /\ heap[1].f_score > popped[1].f_score

\* The integer the heuristic is said to be: (52 - sum of foundations) * 10,
\* minus 3 for each adjacent pair of a cascade that is in sequence, plus 5
\* for each occupied freecell, plus 5 for each adjacent pair whose lower
\* card has the smaller rank.
StatedHeuristic(g) ==
    LET remaining ==
            52 - (g.foundations[0] + g.foundations[1] + g.foundations[2] + g.foundations[3])
        in_sequence == {w \in Windows(g) :
                           StacksOn(g.columns[w[1]][w[2]], g.columns[w[1]][w[2] + 1])}
        inverted    == {w \in Windows(g) :
                           g.columns[w[1]][w[2]].rank < g.columns[w[1]][w[2] + 1].rank}
        occupied    == {f \in Cells : g.freecells[f] # <<>>}
    IN  remaining * 10 - 3 * Cardinality(in_sequence)
        + 5 * Cardinality(occupied) + 5 * Cardinality(inverted)

\* C24: Solver::heuristic(state) is that integer, for every state; the
\* score is held in tenths, so the two agree when heuristic is 10 times it.
C24_HeuristicValue == heuristic(game) = 10 * StatedHeuristic(game)

\* C25: Action::new(from, to, pile_size) is an error exactly when from or
\* to is 12 or more, or from = to, or a freecell slot (8..11) is named with
\* pile_size above 1; otherwise it is an Action with those three fields.
C25_ActionNewErrors ==
    made # None =>
        LET a   == made[1]
            bad == \/ a.from >= 12 \/ a.to >= 12
                   \/ a.from = a.to
                   \/ (a.from > 7 \/ a.to > 7) /\ a.pile_size > 1
        IN  /\ a.result.status = "Err" <=> bad
            /\ a.result.status = "Ok" =>
                   a.result.value =
                       [from |-> a.from, to |-> a.to, pile_size |-> a.pile_size]

\* Action::new has refused a block of two cards addressed to a freecell.
C25_Witness ==
    /\ made # None
    /\ made[1].from <= 7 /\ made[1].to \in 8..11 /\ made[1].pile_size = 2
    /\ made[1].result.status = "Err"
    /\ pc = "done"

\* C26: after Game::new and after every game.apply that returns Ok, no card
\* in a freecell and no cascade top is the next card of its foundation.
C26_FreecellsPromoted ==
    (applied = "Ok" \/ (deck # None /\ applied = "none")) => NoneEligible(game)

\* The largest block the free space of g allows to move: (1 + F) * 2^E
\* capped at 13, F the empty freecells and E the empty cascades, one empty
\* cascade not counted when the destination is itself empty.
Capacity(g, j) ==
    LET F  == Cardinality({f \in Cells : g.freecells[f] = <<>>})
        E  == Cardinality({c \in Cols : g.columns[c] = <<>>})
        E1 == IF g.columns[j] = <<>> /\ E > 0 THEN E - 1 ELSE E
    IN  IF (1 + F) * 2 ^ E1 < 13 THEN (1 + F) * 2 ^ E1 ELSE 13

\* C27: every ColToCol move of get_moves has a pile_size within the
\* capacity of the state for its destination.
C27_WithinCapacity ==
    LET moves == get_moves(game)
    IN  \A k \in 1..Len(moves) :
            moves[k].action_type = "ColToCol" =>
                moves[k].pile_size <= Capacity(game, moves[k].dest)

\* The column-to-column actions of a list of actions of Game.
BetweenColumns(actions) ==
    {k \in 1..Len(actions) : actions[k].from < 8 /\ actions[k].to < 8}

\* The cards from offset to the top of a column form a run: each card
\* stacks on the one below it.
InSequenceFrom(column, offset) ==
    \A i \in (offset + 1)..(Len(column) - 1) : can_stack(column[i], column[i + 1])

\* C28: every column-to-column action of get_all_possible_moves has two
\* distinct columns and a non-empty source, moves a run of at most the
\* capacity of the state for its destination, and on a non-empty destination
\* the deepest moved card stacks on the top of the destination.
C28_GeneratorSound ==
    ~get_all_possible_moves_panics(game) =>
        LET actions == get_all_possible_moves(game)
        IN  \A k \in BetweenColumns(actions) :
                LET a      == actions[k]
                    source == game.columns[a.from]
                    target == game.columns[a.to]
                IN  /\ a.from # a.to
                    /\ source # <<>>
                    /\ a.pile_size < Len(source)
                    /\ InSequenceFrom(source, a.pile_size)
                    /\ Len(source) - a.pile_size <= Capacity(game, a.to)
                    /\ target # <<>> =>
                           can_stack(Last(target), source[a.pile_size + 1])

\* A position where a run longer than the capacity lies on a column and as
\* many cards of it as the capacity allows go onto a card of another column.
C28_Witness ==
    /\ ~get_all_possible_moves_panics(game)
    /\ LET actions == get_all_possible_moves(game)
       IN  \E k \in BetweenColumns(actions) :
               LET a == actions[k]
               IN  /\ max_sequence(game.columns[a.from]) > Capacity(game, a.to)
                   /\ game.columns[a.to] # <<>>
                   /\ Len(game.columns[a.from]) - a.pile_size = Capacity(game, a.to)

\* C29: get_all_possible_moves returns no column-to-column action that
\* moves the whole source column (offset 0) onto an empty column.
C29_NoWholeColumnToEmpty ==
    ~get_all_possible_moves_panics(game) =>
        LET actions == get_all_possible_moves(game)
        IN  \A k \in BetweenColumns(actions) :
                ~(actions[k].pile_size = 0 /\ game.columns[actions[k].to] = <<>>)

\* The moves of one card to its foundation that get_moves offers: the
\* cascade tops and the freecell cards with foundations[suit] + 1 = rank.
FoundationMoves(g) == ColToFoundationMoves(g) \o FreecellToFoundationMoves(g)

\* The states one promotion away from g.
PromotionSteps(g) ==
    LET moves == FoundationMoves(g)
    IN  {apply_move(g, moves[k]) : k \in 1..Len(moves)}

\* The states where promotion, one card at a time in any order, comes to
\* an end.
RECURSIVE Promoted(_)
Promoted(g) ==
    IF FoundationMoves(g) = <<>> THEN {g}
    ELSE UNION {Promoted(h) : h \in PromotionSteps(g)}

\* C30: promoting the eligible cards of a state one at a time, in any
\* order, until none is eligible ends in one and the same state.
C30_PromotionConfluent == Cardinality(Promoted(game)) = 1

\* A state with a choice of the card promoted first, a freecell card among
\* the eligible ones, where one of the promotions makes a further card
\* eligible.
C30_Witness ==
    /\ Cardinality(PromotionSteps(game)) >= 2
    /\ FreecellToFoundationMoves(game) # <<>>
    /\ \E h \in PromotionSteps(game) :
           Cardinality(PromotionSteps(h)) >= Cardinality(PromotionSteps(game))
    /\ Cardinality(Promoted(game)) = 1

\* The sum of the four foundation counters and the cards in the cascades.
FoundationSum(g) ==
    g.foundations[0] + g.foundations[1] + g.foundations[2] + g.foundations[3]

RECURSIVE CascadeCardsUpTo(_, _)
CascadeCardsUpTo(g, c) ==
    IF c < 0 THEN 0 ELSE Len(g.columns[c]) + CascadeCardsUpTo(g, c - 1)

CascadeCards(g) == CascadeCardsUpTo(g, 7)

\* From g to h one cascade top, the next card of its foundation, went to
\* that foundation and nothing else changed.
PromotesOneTop(g, h) ==
    \E c \in Cols :
        /\ g.columns[c] # <<>>
        /\ LET card == Last(g.columns[c])
           IN  /\ card.rank = g.foundations[card.suit] + 1
               /\ h = [g EXCEPT !.columns[c] = Front(@),
                                !.foundations[card.suit] = card.rank]

\* The run of apply_foundation_moves from g ends, in the state the
\* function returns, after at most as many promotions as the cascades of g
\* hold cards, each iteration but the last promoting one cascade top and
\* adding one to the sum of the foundations.
PromotionTerminates(g) ==
    LET trace == PromotionTrace(g)
    IN  /\ Len(trace) - 1 <= CascadeCards(g)
        /\ trace[Len(trace)] = apply_foundation_moves(g)
        /\ \A k \in 1..(Len(trace) - 1) :
               /\ PromotesOneTop(trace[k], trace[k + 1])
               /\ FoundationSum(trace[k + 1]) = FoundationSum(trace[k]) + 1

\* C31: apply_foundation_moves terminates, on the cards as dealt and on the
\* state of the game: every iteration that does not leave the loop promotes
\* exactly one cascade top and adds one to the sum of the foundations, and
\* there are at most as many promotions as cards in the cascades.
C31_PromotionTerminates ==
    /\ PromotionTerminates(game)
    /\ deck # None => PromotionTerminates(DealFrom(EmptyGame, deck[1], 0))

\* A deal whose promotion takes several iterations, and a state after a
\* move where a promotion is due.
C31_Witness ==
    /\ deck # None
    /\ Len(PromotionTrace(DealFrom(EmptyGame, deck[1], 0))) >= 4
    /\ depth > 0
    /\ Len(PromotionTrace(game)) >= 2

\* The cards in the cascades and the freecells.
CardsInPlay(g) ==
    CascadeCards(g) + Cardinality({f \in Cells : g.freecells[f] # <<>>})

\* From g to h no foundation counter went down or past 13, and the counters
\* went up by one for each card that left the cascades and freecells, at
\* most one card.
FoundationsAdvance(g, h) ==
    /\ \A s \in Suits : /\ h.foundations[s] >= g.foundations[s]
                        /\ h.foundations[s] <= g.foundations[s] + 1
                        /\ h.foundations[s] \in 0..KING
    /\ FoundationSum(h) - FoundationSum(g) = CardsInPlay(g) - CardsInPlay(h)
    /\ FoundationSum(h) - FoundationSum(g) <= 1

\* C32: in every state reached from a legal deal the four foundation
\* counters are in 0..13; every move of get_moves applied by apply_move and
\* every promotion of apply_foundation_moves leaves each counter where it
\* was or one higher, one step for one promoted card; and no move to a
\* foundation whose counter is 13 is offered.
C32_FoundationsMonotone ==
    LET moves == get_moves(game)
        trace == PromotionTrace(game)
    IN  /\ \A s \in Suits : game.foundations[s] \in 0..KING
        /\ \A k \in 1..Len(moves) :
               /\ FoundationsAdvance(game, apply_move(game, moves[k]))
               /\ moves[k].action_type \in {"ColToFoundation", "FreecellToFoundation"}
                     => game.foundations[moves[k].dest] < KING
        /\ \A k \in 1..(Len(trace) - 1) :
               /\ FoundationsAdvance(trace[k], trace[k + 1])
               /\ \E s \in Suits : /\ trace[k].foundations[s] < KING
                                    /\ trace[k + 1].foundations[s]
                                          = trace[k].foundations[s] + 1

\* A card has just been moved to its foundation in a game where the
\* foundation of another suit is full and cards are still in play.
C32_Witness ==
    /\ last # None
    /\ last[1].action_type \in {"ColToFoundation", "FreecellToFoundation"}
    /\ game.foundations[last[1].dest] >= 1
    /\ \E s \in Suits : s # last[1].dest /\ game.foundations[s] = KING
    /\ CardsInPlay(game) > 0

\* C33: in every state reached from a legal deal the heuristic is not
\* negative, it is 0 exactly in the won states, where every foundation is
\* at 13 and the cascades and freecells are empty, and it is above 0 in
\* every other state.
C33_HeuristicZeroIffWon ==
    LET h == heuristic(game)
    IN  /\ h >= 0
        /\ h = 0 <=> is_complete(game)
        /\ is_complete(game) => CardsInPlay(game) = 0
        /\ ~is_complete(game) => h > 0

\* A won state, reached by the promotions of Game::new.
C33_Witness == is_complete(game) /\ deck # None /\ heuristic(game) = 0

\* A state that is not won where blocks in sequence lower the heuristic.
C33_WitnessNotWon ==
    /\ ~is_complete(game)
    /\ depth > 0
    /\ \E w \in Windows(game) :
           can_stack_on(game.columns[w[1]][w[2]], game.columns[w[1]][w[2] + 1])
    /\ heuristic(game) > 0

\* The positions of test_max_card_move1..4: an ace of spades on each of the
\* first columns and in each of the first freecells.
CapacityTestGame(columns_filled, cells_filled) ==
    [columns     |-> [c \in Cols |-> IF c < columns_filled
                                      THEN <<Cd(1, Spade)>> ELSE <<>>],
     freecells   |-> [f \in Cells |-> IF f < cells_filled
                                       THEN <<Cd(1, Spade)>> ELSE <<>>],
     foundations |-> [s \in Suits |-> 0]]

\* 2^n by doubling.
RECURSIVE Doubled(_)
Doubled(n) == IF n = 0 THEN 1 ELSE 2 * Doubled(n - 1)

\* (1 + F) * 2^E capped at 13, F empty freecells and E empty columns, one
\* column less, but not below none, when remove_one_column is set.
StatedCapacity(g, remove_one_column) ==
    LET F  == Cardinality({f \in Cells : g.freecells[f] = <<>>})
        E  == Cardinality({c \in Cols : g.columns[c] = <<>>})
        E1 == IF remove_one_column THEN (IF E >= 1 THEN E - 1 ELSE 0) ELSE E
        n  == (1 + F) * Doubled(E1)
    IN  IF n > 13 THEN 13 ELSE n

\* C34: max_card_move(remove_one_column) is min(13, (1 + F) * 2^E) with
\* one empty column less when remove_one_column is set; 4 empty freecells
\* and 1 empty column give 10, 3 empty freecells and 5 empty columns 13,
\* 1 empty freecell and no empty column 2, and no empty slot 1.
C34_MaxCardMove ==
    /\ \A r \in BOOLEAN : max_card_move(game, r) = StatedCapacity(game, r)
    /\ max_card_move(CapacityTestGame(7, 0), FALSE) = 10
    /\ max_card_move(CapacityTestGame(3, 1), FALSE) = 13
    /\ max_card_move(CapacityTestGame(8, 3), FALSE) = 2
    /\ max_card_move(CapacityTestGame(8, 4), FALSE) = 1

\* A position reached by a move where the empty column taken as the
\* destination lowers the capacity, below the cap of 13.
C34_Witness ==
    /\ applied = "Ok"
    /\ max_card_move(game, TRUE) < max_card_move(game, FALSE)
    /\ max_card_move(game, FALSE) < 13
    /\ max_card_move(game, TRUE) > 1

\* The length of the longest suffix of a column in which every card stacks
\* on the one below it: 0 for an empty column.
LongestRun(column) ==
    IF column = <<>> THEN 0
    ELSE CHOOSE k \in 1..Len(column) :
            /\ \A i \in (Len(column) - k + 1)..(Len(column) - 1) :
                   StacksOn(column[i], column[i + 1])
            /\ \A j \in (k + 1)..Len(column) :
                   \E i \in (Len(column) - j + 1)..(Len(column) - 1) :
                       ~StacksOn(column[i], column[i + 1])

\* The position of test_max_sequence.
SequenceTestGame ==
    [columns     |-> [c \in Cols |->
                        CASE c = 0 -> <<Cd(3, Club), Cd(2, Heart), Cd(1, Spade)>>
                          [] c = 1 -> <<Cd(4, Diamond), Cd(5, Spade)>>
                          [] c = 2 -> <<Cd(6, Heart)>>
                          [] c = 3 -> <<Cd(8, Diamond), Cd(3, Club), Cd(2, Heart),
                                        Cd(1, Spade)>>
                          [] c = 4 -> <<Cd(5, Spade), Cd(4, Diamond)>>
                          [] OTHER -> <<>>],
     freecells   |-> [f \in Cells |-> <<>>],
     foundations |-> [s \in Suits |-> 0]]

\* max_sequence is the length of the longest run at the top of each column
\* of the game and of the position of test_max_sequence.
C35_SuffixLength ==
    /\ \A c \in Cols : max_sequence(game.columns[c]) = LongestRun(game.columns[c])
    /\ \A c \in Cols : max_sequence(SequenceTestGame.columns[c])
                            = LongestRun(SequenceTestGame.columns[c])
    /\ [c \in 0..5 |-> max_sequence(SequenceTestGame.columns[c])]
          = (0 :> 3 @@ 1 :> 1 @@ 2 :> 1 @@ 3 :> 3 @@ 4 :> 2 @@ 5 :> 0)

\* C35: max_sequence of a column is the length of its longest run of cards
\* each stacking on the one below, 0 for an empty column, and for every
\* non-empty column it is the seq_len get_moves computes.
C35_MaxSequence ==
    \A c \in Cols :
        /\ max_sequence(game.columns[c]) = LongestRun(game.columns[c])
        /\ game.columns[c] # <<>> =>
               max_sequence(game.columns[c]) = seq_len(game.columns[c])

====
